---- MODULE Spec2Model ----
(***************************************************************************)
(* The session state machine of the TalkToStudy app (src/App.tsx), its two *)
(* request functions (src/services/geminiService.ts) and the browser       *)
(* services it drives (FileReader, SpeechSynthesis, SpeechRecognition).    *)
(*                                                                         *)
(* JavaScript values: a nullable value is <<>> (null / undefined) or <<v>>.*)
(* A string is the tuple of its characters, so that startsWith, trim and   *)
(* length are computed and not assumed.                                    *)
(***************************************************************************)
EXTENDS Integers, Sequences, FiniteSets, TLC

\* ------------------------------------------------------------------ bounds
MaxLoads == 2          \* file-input change events in one behaviour
MaxAnalyses == 2       \* Content Analyzer invocations in one behaviour
MaxSends == 2          \* Conversational Responder invocations in one behaviour
MaxLangChanges == 2    \* language changes in one behaviour (there and back)
MaxListens == 1        \* recognition sessions started in one behaviour
MaxReadAlouds == 1     \* Read Aloud clicks in one behaviour

\* ------------------------------------------------------- JavaScript values
Null == <<>>
Some(v) == <<v>>
IsNull(o) == o = <<>>
Val(o) == o[1]

EmptyString == <<>>

\* String.prototype.startsWith
StartsWith(s, p) == Len(s) >= Len(p) /\ SubSeq(s, 1, Len(p)) = p

IsSpace(c) == c = " "

RECURSIVE TrimStart(_)
TrimStart(s) == IF s # <<>> /\ IsSpace(Head(s)) THEN TrimStart(Tail(s)) ELSE s

RECURSIVE TrimEnd(_)
TrimEnd(s) ==
    IF s # <<>> /\ IsSpace(s[Len(s)]) THEN TrimEnd(SubSeq(s, 1, Len(s) - 1)) ELSE s

\* String.prototype.trim
Trim(s) == TrimEnd(TrimStart(s))

\* JavaScript truthiness of a nullable string: null, undefined and "" are falsy
Truthy(o) == ~IsNull(o) /\ Val(o) # EmptyString

\* a || b on nullable strings
OrElse(a, b) == IF Truthy(a) THEN a ELSE b

\* --------------------------------------------------------------- languages
Languages == {"English", "Hindi"}

\* ------------------------------------------------------------ file intake
MaxImageBytes == 10 * 1024 * 1024

ImagePrefix == <<"i", "m", "a", "g", "e", "/">>

MimePng == <<"i", "m", "a", "g", "e", "/", "p", "n", "g">>
MimeText == <<"t", "e", "x", "t", "/", "p", "l", "a", "i", "n">>
MimeImageNoSlash == <<"i", "m", "a", "g", "e">>

\* The files the user may pick: a File has a type, a size, and FileReader either
\* reads it into a data URL or fails.  dataUrl is the data URL as the pair of its
\* parts around the first comma.
File(type, size, payload, readable) ==
    [type |-> type, size |-> size, readable |-> readable,
     dataUrl |-> <<<<"d", "a", "t", "a", ":", ";", "b", "a", "s", "e", "6", "4">>, payload>>]

Files ==
    { File(MimePng, MaxImageBytes, <<"A">>, TRUE),
      File(MimePng, 2048, <<"B">>, TRUE),
      File(MimePng, 2048, <<"B">>, FALSE),
      File(MimePng, 0, <<>>, TRUE),
      File(MimePng, MaxImageBytes + 1, <<"C">>, TRUE),
      File(MimeText, 2048, <<"T">>, TRUE),
      File(MimeText, MaxImageBytes + 1, <<"T">>, TRUE),
      File(MimeImageNoSlash, 2048, <<"D">>, TRUE) }

\* String.prototype.split(',')[1] of a data URL held as its parts around the comma
Base64Part(dataUrl) == dataUrl[2]

ErrUnsupported == "Unsupported file format. Please upload a valid image (JPEG, PNG)."
ErrTooLarge == "Image is too large. Please use an image under 10MB."
ErrFileRead == "Failed to process image file."
ErrAnalyze == "Unable to analyze the image. Please ensure the image is clear and try again."

\* ------------------------------------------------------ Content Analyzer
\* What the hosted model makes of a request.  The record's text is a function of
\* the image and the language asked for.
LearningRecordFor(img, lang) ==
    [topic |-> <<"topic", img, lang>>,
     short_reading |-> <<"reading", img, lang>>,
     simple_explanation |-> <<"explanation", img, lang>>,
     key_points |-> <<"k1", "k2", "k3">>,
     example |-> <<"example", img, lang>>,
     quiz |-> <<"quiz", img, lang>>]

\* The same record with the quiz field missing
PartialRecordFor(img, lang) ==
    [topic |-> <<"topic", img, lang>>,
     short_reading |-> <<"reading", img, lang>>,
     simple_explanation |-> <<"explanation", img, lang>>,
     key_points |-> <<"k1", "k2", "k3">>,
     example |-> <<"example", img, lang>>]

RequiredFields ==
    {"topic", "short_reading", "simple_explanation", "key_points", "example", "quiz"}

\* A response text is empty or not, and is JSON text denoting a value or is not
\* JSON at all (json = Null).  The value denoted is null (Null) or an object.
Text(empty, json) == [empty |-> empty, json |-> json]

\* generateContent either throws or returns a response whose .text is undefined
\* (Null) or a text.
AnalyzerReplies(req) ==
    { [throws |-> TRUE, text |-> Null],
      [throws |-> FALSE, text |-> Null],
      [throws |-> FALSE, text |-> Some(Text(TRUE, Null))],
      [throws |-> FALSE, text |-> Some(Text(FALSE, Null))],
      [throws |-> FALSE, text |-> Some(Text(FALSE, Some(Null)))],
      [throws |-> FALSE,
       text |-> Some(Text(FALSE, Some(Some(PartialRecordFor(req.image, req.language)))))],
      [throws |-> FALSE,
       text |-> Some(Text(FALSE, Some(Some(LearningRecordFor(req.image, req.language)))))] }

Throw == [ok |-> FALSE, value |-> Null]
Return(v) == [ok |-> TRUE, value |-> v]

\* JSON.parse: throws on text that is not JSON, returns the value denoted otherwise
JSONParse(t) == IF IsNull(t.json) THEN Throw ELSE Return(Val(t.json))

\* analyzeImageContent: the value returned to handleAnalyze, or a throw
AnalyzeImageContent(reply) ==
    IF reply.throws THEN Throw
    ELSE IF IsNull(reply.text) \/ Val(reply.text).empty THEN Throw
    ELSE JSONParse(Val(reply.text))

\* ----------------------------------------------- Conversational Responder
FallbackNoAnswer ==
    << "I", " ", "c", "o", "u", "l", "d", "n", "'", "t", " ", "g", "e", "n", "e", "r",
       "a", "t", "e", " ", "a", "n", " ", "a", "n", "s", "w", "e", "r", " ", "a", "t",
       " ", "t", "h", "e", " ", "m", "o", "m", "e", "n", "t", "." >>

FallbackError ==
    << "S", "o", "r", "r", "y", ",", " ", "I", " ", "a", "m", " ", "h", "a", "v", "i",
       "n", "g", " ", "t", "r", "o", "u", "b", "l", "e", " ", "c", "o", "n", "n", "e",
       "c", "t", "i", "n", "g", " ", "t", "o", " ", "t", "h", "e", " ", "b", "r", "a",
       "i", "n", " ", "r", "i", "g", "h", "t", " ", "n", "o", "w", "." >>

\* generateContent for a chat: throws, or returns a response whose .text is
\* undefined (Null) or a string.
ResponderReplies ==
    { [throws |-> TRUE, text |-> Null],
      [throws |-> FALSE, text |-> Null],
      [throws |-> FALSE, text |-> Some(EmptyString)],
      [throws |-> FALSE, text |-> Some(<<"O", "k", " ", "s", "o">>)] }

\* Variant for sensitivity: response.text is returned without the || fallback
AskFollowUpQuestionNoFallback(reply) ==
    IF reply.throws THEN FallbackError
    ELSE IF IsNull(reply.text) THEN FallbackNoAnswer ELSE Val(reply.text)

\* askFollowUpQuestion: the string returned to handleSendMessage
AskFollowUpQuestion(reply) ==
    IF reply.throws THEN FallbackError
    ELSE Val(OrElse(reply.text, Some(FallbackNoAnswer)))

\* ------------------------------------------------------------- chat texts
\* What the user may type, and what a recognition session may deliver
ChatTexts == { EmptyString, <<" ">>, <<"q">> }

UserMsg(text) == [role |-> "user", text |-> text]
AiMsg(text) == [role |-> "assistant", text |-> text]

\* The context string handleSendMessage builds from the record (its fields in the
\* order of the template)
BuildContext(c) ==
    <<c.topic, c.short_reading, c.simple_explanation, c.key_points, c.example>>

\* ---------------------------------------------------------------- locale
LanguageCode(lang) == IF lang = "Hindi" THEN "hi-IN" ELSE "en-US"

\* ------------------------------------------------------------------ state
VARIABLES
    image,                 \* useState<string | null>: the base64 payload
    loading,               \* useState(false): an analysis is awaited
    error,                 \* useState<string | null>
    content,               \* useState<LearningContent | null>
    language,              \* useState<AppLanguage>
    isSpeaking,            \* useState(false)
    speechProgress,        \* useState(0): a percentage, held as num / den
    isPaused,              \* useState(false)
    chatInput,             \* useState('')
    chatLoading,           \* useState(false)
    messages,              \* useState<ChatMessage[]>([])
    isListening,           \* useState(false)
    recognitionRef,        \* useRef: the recognition object of the last setup effect
    currentUtteranceRef,   \* useRef: the utterance of the last speakContent
    hasSpeechRecognition,  \* 'webkitSpeechRecognition' in window
    synth,                 \* window.speechSynthesis
    recognitions,          \* the recognition objects that are started
    pendingReads,          \* fileToBase64 promises not yet settled
    pendingAnalyses,       \* analyzeImageContent promises not yet settled
    pendingChats,          \* askFollowUpQuestion promises not yet settled
    nLoads,                \* file-input change events so far
    analyzerCalls,         \* analyzeImageContent invocations so far
    responderCalls,        \* askFollowUpQuestion invocations so far
    nLangChanges,          \* language changes so far
    nListens,              \* recognition sessions started so far
    nReadAlouds,           \* Read Aloud clicks so far
    lastOp                 \* the handler that ran last, with its input

vars ==
    <<image, loading, error, content, language, isSpeaking, speechProgress, isPaused,
      chatInput, chatLoading, messages, isListening, recognitionRef,
      currentUtteranceRef, hasSpeechRecognition, synth, recognitions, pendingReads,
      pendingAnalyses, pendingChats, nLoads, analyzerCalls, responderCalls,
      nLangChanges, nListens, nReadAlouds, lastOp>>

narrationVars == <<isSpeaking, speechProgress, isPaused, currentUtteranceRef, synth>>
chatVars == <<chatInput, chatLoading, messages, pendingChats, responderCalls>>
captureVars == <<isListening, recognitions, nListens>>
intakeVars == <<image, pendingReads, nLoads>>
analysisVars == <<loading, pendingAnalyses, analyzerCalls>>
setupVars == <<language, recognitionRef, hasSpeechRecognition, nLangChanges>>

\* The handler that ran, the file / analyzer reply / text it was given, and the
\* responder's reply (answer) of a chat that settled
Op(name, file, reply, text) ==
    [op |-> name, file |-> file, reply |-> reply, text |-> text, answer |-> Null]

\* A percentage num / den
Percent(num, den) == [num |-> num, den |-> den]
Zero == Percent(0, 1)
Hundred == Percent(100, 1)

\* The state a handler created in the current render reads
Closure ==
    [content |-> content, chatInput |-> chatInput, messages |-> messages,
     language |-> language]

\* new webkitSpeechRecognition() of the setup effect: its handlers keep the
\* handleSendMessage of the render the effect ran in
Recognition(gen, closure) ==
    [gen |-> gen, lang |-> LanguageCode(closure.language), closure |-> closure]

Init ==
    /\ image = Null
    /\ loading = FALSE
    /\ error = Null
    /\ content = Null
    /\ language = "English"
    /\ isSpeaking = FALSE
    /\ speechProgress = Zero
    /\ isPaused = FALSE
    /\ chatInput = EmptyString
    /\ chatLoading = FALSE
    /\ messages = <<>>
    /\ isListening = FALSE
    /\ hasSpeechRecognition \in BOOLEAN
    /\ recognitionRef =
         IF hasSpeechRecognition
         THEN Some(Recognition(0, [content |-> Null, chatInput |-> EmptyString,
                                   messages |-> <<>>, language |-> "English"]))
         ELSE Null
    /\ currentUtteranceRef = Null
    /\ synth = [utt |-> Null, queue |-> <<>>, pos |-> -1, paused |-> FALSE, stale |-> 0]
    /\ recognitions = {}
    /\ pendingReads = <<>>
    /\ pendingAnalyses = <<>>
    /\ pendingChats = <<>>
    /\ nLoads = 0
    /\ analyzerCalls = 0
    /\ responderCalls = 0
    /\ nLangChanges = 0
    /\ nListens = 0
    /\ nReadAlouds = 0
    /\ lastOp = Op("mount", Null, Null, Null)

\* s without its i-th element
RemoveAt(s, i) == SubSeq(s, 1, i - 1) \o SubSeq(s, i + 1, Len(s))

\* ------------------------------------------------------------ file intake
\* Variant for sensitivity: the type is tested without the slash
IsImageTypeNoSlash(file) == StartsWith(file.type, MimeImageNoSlash)

\* file.type.startsWith('image/')
IsImageType(file) == StartsWith(file.type, ImagePrefix)

\* Variant for sensitivity: the limit is exclusive
IsTooLargeInclusive(file) == file.size >= MaxImageBytes

\* file.size > 10 * 1024 * 1024
IsTooLarge(file) == file.size > MaxImageBytes

\* handleFileChange up to its await: picked is e.target.files[0], Null when the
\* change event carries no file
HandleFileChange(picked) ==
    /\ nLoads < MaxLoads
    /\ nLoads' = nLoads + 1
    /\ lastOp' = Op("handleFileChange", picked, Null, Null)
    /\ IF IsNull(picked)
       THEN error' = Null /\ UNCHANGED pendingReads
       ELSE IF ~IsImageType(Val(picked))
       THEN error' = Some(ErrUnsupported) /\ UNCHANGED pendingReads
       ELSE IF IsTooLarge(Val(picked))
       THEN error' = Some(ErrTooLarge) /\ UNCHANGED pendingReads
       ELSE error' = Null /\ pendingReads' = Append(pendingReads, Val(picked))
    /\ UNCHANGED <<image, content, analysisVars, chatVars, captureVars, narrationVars,
                   setupVars, nReadAlouds>>

\* Variant for sensitivity: the record is kept when the new image is stored
FileReadSettledKeepsRecord(i) ==
    /\ i \in 1..Len(pendingReads)
    /\ LET file == pendingReads[i] IN
         /\ lastOp' = Op("fileReadSettled", Some(file), Null, Null)
         /\ IF file.readable
            THEN /\ image' = Some(Base64Part(file.dataUrl))
                 /\ UNCHANGED <<content, error>>
            ELSE /\ error' = Some(ErrFileRead)
                 /\ UNCHANGED <<image, content>>
    /\ pendingReads' = RemoveAt(pendingReads, i)
    /\ UNCHANGED <<nLoads, analysisVars, chatVars, captureVars, narrationVars,
                   setupVars, nReadAlouds>>

\* handleFileChange after its await: fileToBase64 resolved or rejected
FileReadSettled(i) ==
    /\ i \in 1..Len(pendingReads)
    /\ LET file == pendingReads[i] IN
         /\ lastOp' = Op("fileReadSettled", Some(file), Null, Null)
         /\ IF file.readable
            THEN /\ image' = Some(Base64Part(file.dataUrl))
                 /\ content' = Null
                 /\ UNCHANGED error
            ELSE /\ error' = Some(ErrFileRead)
                 /\ UNCHANGED <<image, content>>
    /\ pendingReads' = RemoveAt(pendingReads, i)
    /\ UNCHANGED <<nLoads, analysisVars, chatVars, captureVars, narrationVars,
                   setupVars, nReadAlouds>>

\* The Remove image button, rendered when image is truthy
RemoveImage ==
    /\ Truthy(image)
    /\ image' = Null
    /\ error' = Null
    /\ lastOp' = Op("removeImage", Null, Null, Null)
    /\ UNCHANGED <<content, pendingReads, nLoads, analysisVars, chatVars, captureVars,
                   narrationVars, setupVars, nReadAlouds>>

\* --------------------------------------------------------- speech synthesis
\* window.speechSynthesis: the utterance being spoken, the utterances queued
\* behind it, the character index of the last word boundary reported, the paused
\* flag of the engine, and the number of cancelled utterances whose end / error
\* event is still to be delivered.
Utterance(text, lang) == [text |-> text, lang |-> lang]

\* speechSynthesis.cancel(): playback ceases, the queue is emptied; the paused
\* state of the engine is not changed; the cancelled utterance's event follows
SynthCancel(s) ==
    [s EXCEPT !.utt = Null, !.queue = <<>>, !.pos = -1,
              !.stale = IF IsNull(s.utt) THEN @ ELSE @ + 1 + Len(s.queue)]

\* speechSynthesis.speak(u): u is spoken at once when nothing is, and is queued
\* behind the utterance being spoken otherwise
SynthSpeak(s, u) ==
    IF IsNull(s.utt)
    THEN [s EXCEPT !.utt = Some(u), !.pos = -1]
    ELSE [s EXCEPT !.queue = Append(@, u)]

\* The engine after the utterance being spoken is over: the next of the queue
SynthNext(s) ==
    IF s.queue = <<>>
    THEN [s EXCEPT !.utt = Null, !.pos = -1]
    ELSE [s EXCEPT !.utt = Some(Head(s.queue)), !.queue = Tail(@), !.pos = -1]

\* stopSpeaking, as a function of the engine it leaves
StopSpeakingTo(s) ==
    /\ synth' = s
    /\ isSpeaking' = FALSE
    /\ isPaused' = FALSE
    /\ speechProgress' = Zero
    /\ currentUtteranceRef' = Null

\* stopSpeaking
StopSpeaking == StopSpeakingTo(SynthCancel(synth))

\* Variant for sensitivity: speakContent does not call stopSpeaking first
SpeakContentNoStop(text, lang) ==
    LET utterance == Utterance(text, LanguageCode(lang)) IN
    /\ synth' = SynthSpeak(synth, utterance)
    /\ currentUtteranceRef' = Some(utterance)
    /\ isSpeaking' = TRUE
    /\ isPaused' = FALSE
    /\ speechProgress' = Zero

\* speakContent(text) called by a handler whose closure holds language lang
SpeakContent(text, lang) ==
    LET utterance == Utterance(text, LanguageCode(lang)) IN
    /\ synth' = SynthSpeak(SynthCancel(synth), utterance)
    /\ currentUtteranceRef' = Some(utterance)
    /\ isSpeaking' = TRUE
    /\ isPaused' = FALSE
    /\ speechProgress' = Zero

\* ------------------------------------------------------------------ analyze
\* Variant for sensitivity: the button is not disabled while an analysis is awaited
AnalyzeDisabledNoLoading == ~Truthy(image)

\* disabled={!image || loading} of the Explain This button
AnalyzeDisabled == ~Truthy(image) \/ loading

\* handleAnalyze up to its await
HandleAnalyze ==
    /\ analyzerCalls < MaxAnalyses
    /\ lastOp' = Op("handleAnalyze", Null, Null, Null)
    /\ IF ~Truthy(image)
       THEN UNCHANGED <<loading, error, pendingAnalyses, analyzerCalls, narrationVars>>
       ELSE /\ loading' = TRUE
            /\ error' = Null
            /\ StopSpeaking
            /\ pendingAnalyses' =
                 Append(pendingAnalyses, [image |-> Val(image), language |-> language])
            /\ analyzerCalls' = analyzerCalls + 1
    /\ UNCHANGED <<content, intakeVars, chatVars, captureVars, setupVars, nReadAlouds>>

\* A click on the Explain This button
ClickAnalyze ==
    /\ ~AnalyzeDisabled
    /\ HandleAnalyze

\* Variant for sensitivity: the chat is kept on success
AnalyzeSettledKeepsChat(i, reply) ==
    /\ i \in 1..Len(pendingAnalyses)
    /\ reply \in AnalyzerReplies(pendingAnalyses[i])
    /\ lastOp' = Op("analyzeSettled", Null, Some(reply), Null)
    /\ LET result == AnalyzeImageContent(reply) IN
         IF result.ok
         THEN /\ content' = result.value
              /\ UNCHANGED <<error, messages>>
         ELSE /\ error' = Some(ErrAnalyze)
              /\ UNCHANGED <<content, messages>>
    /\ loading' = FALSE
    /\ pendingAnalyses' = RemoveAt(pendingAnalyses, i)
    /\ UNCHANGED <<analyzerCalls, intakeVars, chatInput, chatLoading, pendingChats,
                   responderCalls, captureVars, narrationVars, setupVars, nReadAlouds>>

\* Variant for sensitivity: loading is cleared on success only (no finally)
AnalyzeSettledNoFinally(i, reply) ==
    /\ i \in 1..Len(pendingAnalyses)
    /\ reply \in AnalyzerReplies(pendingAnalyses[i])
    /\ lastOp' = Op("analyzeSettled", Null, Some(reply), Null)
    /\ LET result == AnalyzeImageContent(reply) IN
         IF result.ok
         THEN /\ content' = result.value
              /\ messages' = <<>>
              /\ loading' = FALSE
              /\ UNCHANGED error
         ELSE /\ error' = Some(ErrAnalyze)
              /\ UNCHANGED <<content, messages, loading>>
    /\ pendingAnalyses' = RemoveAt(pendingAnalyses, i)
    /\ UNCHANGED <<analyzerCalls, intakeVars, chatInput, chatLoading, pendingChats,
                   responderCalls, captureVars, narrationVars, setupVars, nReadAlouds>>

\* handleAnalyze after its await: try / catch / finally
AnalyzeSettled(i, reply) ==
    /\ i \in 1..Len(pendingAnalyses)
    /\ reply \in AnalyzerReplies(pendingAnalyses[i])
    /\ lastOp' = Op("analyzeSettled", Null, Some(reply), Null)
    /\ LET result == AnalyzeImageContent(reply) IN
         IF result.ok
         THEN /\ content' = result.value
              /\ messages' = <<>>
              /\ UNCHANGED error
         ELSE /\ error' = Some(ErrAnalyze)
              /\ UNCHANGED <<content, messages>>
    /\ loading' = FALSE
    /\ pendingAnalyses' = RemoveAt(pendingAnalyses, i)
    /\ UNCHANGED <<analyzerCalls, intakeVars, chatInput, chatLoading, pendingChats,
                   responderCalls, captureVars, narrationVars, setupVars, nReadAlouds>>

\* --------------------------------------------------------------------- chat
\* const text = textOverride || chatInput, read in closure c
MessageText(textOverride, c) == Val(OrElse(textOverride, Some(c.chatInput)))

\* if (!text.trim() || !content) return, read in closure c
SendReturnsEarly(textOverride, c) ==
    Trim(MessageText(textOverride, c)) = EmptyString \/ IsNull(c.content)

\* handleSendMessage(textOverride) up to its await, run with the state of closure
\* c; inputBefore is the input buffer as the caller left it
HandleSendMessage(textOverride, c, inputBefore) ==
    IF SendReturnsEarly(textOverride, c)
    THEN /\ chatInput' = inputBefore
         /\ UNCHANGED <<messages, chatLoading, pendingChats, responderCalls>>
    ELSE LET userMsg == UserMsg(MessageText(textOverride, c)) IN
         /\ responderCalls < MaxSends
         /\ messages' = Append(messages, userMsg)
         /\ chatInput' = EmptyString
         /\ chatLoading' = TRUE
         /\ pendingChats' =
              Append(pendingChats,
                     [context |-> BuildContext(Val(c.content)),
                      history |-> Append(c.messages, userMsg),
                      language |-> c.language])
         /\ responderCalls' = responderCalls + 1

\* disabled={!chatInput.trim() || chatLoading} of the Send button
SendDisabled == Trim(chatInput) = EmptyString \/ chatLoading

\* A click on the Send button (rendered when content is set)
ClickSend ==
    /\ ~IsNull(content)
    /\ ~SendDisabled
    /\ lastOp' = Op("clickSend", Null, Null, Some(chatInput))
    /\ HandleSendMessage(Null, Closure, chatInput)
    /\ UNCHANGED <<error, content, intakeVars, analysisVars, captureVars, narrationVars,
                   setupVars, nReadAlouds>>

\* Enter in the chat input (rendered when content is set)
EnterKey ==
    /\ ~IsNull(content)
    /\ lastOp' = Op("enterKey", Null, Null, Some(chatInput))
    /\ HandleSendMessage(Null, Closure, chatInput)
    /\ UNCHANGED <<error, content, intakeVars, analysisVars, captureVars, narrationVars,
                   setupVars, nReadAlouds>>

\* onChange of the chat input
TypeChat(text) ==
    /\ ~IsNull(content)
    /\ text # chatInput
    /\ chatInput' = text
    /\ lastOp' = Op("typeChat", Null, Null, Null)
    /\ UNCHANGED <<error, content, chatLoading, messages, pendingChats, responderCalls,
                   intakeVars, analysisVars, captureVars, narrationVars, setupVars,
                   nReadAlouds>>

\* The Clear Chat button
ClearChat ==
    /\ ~IsNull(content)
    /\ Len(messages) > 0
    /\ messages' = <<>>
    /\ lastOp' = Op("clearChat", Null, Null, Null)
    /\ UNCHANGED <<error, content, chatInput, chatLoading, pendingChats, responderCalls,
                   intakeVars, analysisVars, captureVars, narrationVars, setupVars,
                   nReadAlouds>>

\* Variant for sensitivity: the answer is not spoken
ChatSettledNoSpeak(i, reply) ==
    /\ i \in 1..Len(pendingChats)
    /\ reply \in ResponderReplies
    /\ lastOp' = [Op("chatSettled", Null, Null, Null) EXCEPT !.answer = Some(reply)]
    /\ LET responseText == AskFollowUpQuestion(reply) IN
         /\ messages' = Append(messages, AiMsg(responseText))
         /\ chatLoading' = FALSE
         /\ UNCHANGED narrationVars
    /\ pendingChats' = RemoveAt(pendingChats, i)
    /\ UNCHANGED <<error, content, chatInput, responderCalls, intakeVars, analysisVars,
                   captureVars, setupVars, nReadAlouds>>

\* Variant for sensitivity: chatLoading is not cleared
ChatSettledKeepsLoading(i, reply) ==
    /\ i \in 1..Len(pendingChats)
    /\ reply \in ResponderReplies
    /\ lastOp' = [Op("chatSettled", Null, Null, Null) EXCEPT !.answer = Some(reply)]
    /\ LET responseText == AskFollowUpQuestion(reply) IN
         /\ messages' = Append(messages, AiMsg(responseText))
         /\ UNCHANGED chatLoading
         /\ SpeakContent(responseText, pendingChats[i].language)
    /\ pendingChats' = RemoveAt(pendingChats, i)
    /\ UNCHANGED <<error, content, chatInput, responderCalls, intakeVars, analysisVars,
                   captureVars, setupVars, nReadAlouds>>

\* handleSendMessage after its await
ChatSettled(i, reply) ==
    /\ i \in 1..Len(pendingChats)
    /\ reply \in ResponderReplies
    /\ lastOp' = [Op("chatSettled", Null, Null, Null) EXCEPT !.answer = Some(reply)]
    /\ LET responseText == AskFollowUpQuestion(reply) IN
         /\ messages' = Append(messages, AiMsg(responseText))
         /\ chatLoading' = FALSE
         /\ SpeakContent(responseText, pendingChats[i].language)
    /\ pendingChats' = RemoveAt(pendingChats, i)
    /\ UNCHANGED <<error, content, chatInput, responderCalls, intakeVars, analysisVars,
                   captureVars, setupVars, nReadAlouds>>

\* ----------------------------------------------------------------- language
\* onChange of the language select, and the recognition setup effect it re-runs
SetLanguage(lang) ==
    /\ nLangChanges < MaxLangChanges
    /\ lang \in Languages
    /\ lang # language
    /\ language' = lang
    /\ nLangChanges' = nLangChanges + 1
    /\ recognitionRef' =
         IF hasSpeechRecognition
         THEN Some(Recognition(nLangChanges + 1, [Closure EXCEPT !.language = lang]))
         ELSE recognitionRef
    /\ lastOp' = Op("setLanguage", Null, Null, Null)
    /\ UNCHANGED <<error, content, hasSpeechRecognition, intakeVars, analysisVars,
                   chatVars, captureVars, narrationVars, nReadAlouds>>

\* ------------------------------------------------------------ voice capture
\* A started recognition object: listening, stopping (stop() was called, a final
\* result may still come) or ending (result or error delivered, end to come)
Session(rec, phase) == [rec |-> rec, phase |-> phase]

IsStarted(rec) == \E r \in recognitions : r.rec = rec

\* recognitionRef.current?.start(): start() of a started object throws
RecognitionStart ==
    IF IsNull(recognitionRef) \/ IsStarted(Val(recognitionRef))
    THEN UNCHANGED <<recognitions, nListens>>
    ELSE /\ nListens < MaxListens
         /\ nListens' = nListens + 1
         /\ recognitions' = recognitions \cup {Session(Val(recognitionRef), "listening")}

\* recognitionRef.current?.stop()
RecognitionStop ==
    /\ recognitions' =
         IF IsNull(recognitionRef)
         THEN recognitions
         ELSE { IF r.rec = Val(recognitionRef) /\ r.phase = "listening"
                THEN Session(r.rec, "stopping") ELSE r : r \in recognitions }
    /\ UNCHANGED nListens

\* toggleListening, the Voice Input button (rendered when content is set)
ToggleListening ==
    /\ ~IsNull(content)
    /\ lastOp' = Op("toggleListening", Null, Null, Null)
    /\ IF isListening
       THEN RecognitionStop /\ UNCHANGED isListening
       ELSE isListening' = TRUE /\ RecognitionStart
    /\ UNCHANGED <<error, content, intakeVars, analysisVars, chatVars, narrationVars,
                   setupVars, nReadAlouds>>

\* recognition.onresult of session r: setChatInput(transcript), then the
\* handleSendMessage of the render the recognition object was set up in
RecognitionResult(r, transcript) ==
    /\ r \in recognitions
    /\ r.phase \in {"listening", "stopping"}
    /\ lastOp' = Op("onresult", Null, Null, Some(transcript))
    /\ HandleSendMessage(Some(transcript), r.rec.closure, transcript)
    /\ recognitions' = (recognitions \ {r}) \cup {Session(r.rec, "ending")}
    /\ UNCHANGED <<error, content, isListening, nListens, intakeVars, analysisVars,
                   narrationVars, setupVars, nReadAlouds>>

\* recognition.onerror of session r
RecognitionError(r) ==
    /\ r \in recognitions
    /\ r.phase = "listening"
    /\ isListening' = FALSE
    /\ recognitions' = (recognitions \ {r}) \cup {Session(r.rec, "ending")}
    /\ lastOp' = Op("onerror", Null, Null, Null)
    /\ UNCHANGED <<error, content, nListens, intakeVars, analysisVars, chatVars,
                   narrationVars, setupVars, nReadAlouds>>

\* recognition.onend of session r
RecognitionEnd(r) ==
    /\ r \in recognitions
    /\ isListening' = FALSE
    /\ recognitions' = recognitions \ {r}
    /\ lastOp' = Op("onend", Null, Null, Null)
    /\ UNCHANGED <<error, content, nListens, intakeVars, analysisVars, chatVars,
                   narrationVars, setupVars, nReadAlouds>>

\* ---------------------------------------------------------------- narration
\* The text handleReadAloud builds from the record; the record's field values stand
\* as one letter each
ReadAloudText(c) == <<"T", "o", "p", "i", "c", ":", " ", "t", ".", " ", "k", ".">>

\* The character indexes at which a word of text starts
WordStarts(text) ==
    { i \in 0..(Len(text) - 1) :
        ~IsSpace(text[i + 1]) /\ (i = 0 \/ IsSpace(text[i])) }

\* Math.min(percent, 100) with percent = (charIndex / totalLength) * 100
BoundaryPercent(charIndex, totalLength) ==
    IF charIndex * 100 > 100 * totalLength
    THEN Hundred
    ELSE Percent(charIndex * 100, totalLength)

\* handleReadAloud, the Read Aloud button (rendered when not speaking)
ClickReadAloud ==
    /\ ~IsNull(content)
    /\ ~isSpeaking
    /\ nReadAlouds < MaxReadAlouds
    /\ nReadAlouds' = nReadAlouds + 1
    /\ SpeakContent(ReadAloudText(Val(content)), language)
    /\ lastOp' = Op("handleReadAloud", Null, Null, Null)
    /\ UNCHANGED <<error, content, intakeVars, analysisVars, chatVars, captureVars,
                   setupVars>>

\* The Stop button (rendered when speaking)
ClickStop ==
    /\ ~IsNull(content)
    /\ isSpeaking
    /\ StopSpeaking
    /\ lastOp' = Op("stopSpeaking", Null, Null, Null)
    /\ UNCHANGED <<error, content, intakeVars, analysisVars, chatVars, captureVars,
                   setupVars, nReadAlouds>>

\* Variant for sensitivity: the Pause / Resume button is rendered when not speaking too
TogglePauseAlwaysRendered ==
    /\ ~IsNull(content)
    /\ IF isPaused
       THEN synth' = [synth EXCEPT !.paused = FALSE] /\ isPaused' = FALSE
       ELSE synth' = [synth EXCEPT !.paused = TRUE] /\ isPaused' = TRUE
    /\ lastOp' = Op("togglePause", Null, Null, Null)
    /\ UNCHANGED <<error, content, isSpeaking, speechProgress, currentUtteranceRef,
                   intakeVars, analysisVars, chatVars, captureVars, setupVars,
                   nReadAlouds>>

\* togglePause, the Pause / Resume button (rendered when speaking)
TogglePause ==
    /\ ~IsNull(content)
    /\ isSpeaking
    /\ IF isPaused
       THEN synth' = [synth EXCEPT !.paused = FALSE] /\ isPaused' = FALSE
       ELSE synth' = [synth EXCEPT !.paused = TRUE] /\ isPaused' = TRUE
    /\ lastOp' = Op("togglePause", Null, Null, Null)
    /\ UNCHANGED <<error, content, isSpeaking, speechProgress, currentUtteranceRef,
                   intakeVars, analysisVars, chatVars, captureVars, setupVars,
                   nReadAlouds>>

\* utterance.onboundary of the utterance being spoken, at a word
UtteranceBoundary(charIndex) ==
    /\ ~IsNull(synth.utt)
    /\ ~synth.paused
    /\ charIndex \in WordStarts(Val(synth.utt).text)
    /\ charIndex > synth.pos
    /\ speechProgress' = BoundaryPercent(charIndex, Len(Val(synth.utt).text))
    /\ synth' = [synth EXCEPT !.pos = charIndex]
    /\ lastOp' = Op("onboundary", Null, Null, Null)
    /\ UNCHANGED <<error, content, isSpeaking, isPaused, currentUtteranceRef,
                   intakeVars, analysisVars, chatVars, captureVars, setupVars,
                   nReadAlouds>>

\* utterance.onend
OnEnd ==
    /\ isSpeaking' = FALSE
    /\ speechProgress' = Hundred
    /\ isPaused' = FALSE

\* utterance.onerror
OnError ==
    /\ isSpeaking' = FALSE
    /\ isPaused' = FALSE
    /\ UNCHANGED speechProgress

\* The utterance being spoken ends
UtteranceEnd ==
    /\ ~IsNull(synth.utt)
    /\ ~synth.paused
    /\ OnEnd
    /\ synth' = SynthNext(synth)
    /\ lastOp' = Op("utteranceEnd", Null, Null, Null)
    /\ UNCHANGED <<error, content, currentUtteranceRef, intakeVars, analysisVars,
                   chatVars, captureVars, setupVars, nReadAlouds>>

\* The speech backend fails on the utterance being spoken
UtteranceError ==
    /\ ~IsNull(synth.utt)
    /\ OnError
    /\ synth' = SynthNext(synth)
    /\ lastOp' = Op("utteranceError", Null, Null, Null)
    /\ UNCHANGED <<error, content, currentUtteranceRef, intakeVars, analysisVars,
                   chatVars, captureVars, setupVars, nReadAlouds>>

\* The event of a cancelled utterance is delivered: end on some platforms, error
\* (interrupted / canceled) on others
CancelledUtteranceEvent ==
    /\ synth.stale > 0
    /\ OnEnd \/ OnError
    /\ synth' = [synth EXCEPT !.stale = @ - 1]
    /\ lastOp' = Op("cancelledUtteranceEvent", Null, Null, Null)
    /\ UNCHANGED <<error, content, currentUtteranceRef, intakeVars, analysisVars,
                   chatVars, captureVars, setupVars, nReadAlouds>>

\* --------------------------------------------------------------------- spec
\* The files of a change event: none, or one of fs
Picked(fs) == {Null} \cup {Some(f) : f \in fs}

\* The user picks among the files fs
Intake(fs) ==
    \/ \E picked \in Picked(fs) : HandleFileChange(picked)
    \/ \E i \in DOMAIN pendingReads : FileReadSettled(i)
    \/ RemoveImage

\* The reply carries the text of a complete LearningRecord
ReturnsRecord(reply) ==
    /\ ~reply.throws
    /\ ~IsNull(reply.text)
    /\ ~Val(reply.text).empty
    /\ ~IsNull(Val(reply.text).json)
    /\ ~IsNull(Val(Val(reply.text).json))
    /\ DOMAIN Val(Val(Val(reply.text).json)) = RequiredFields

\* A reply is sound when the analyzer returns the record asked for or throws
IsSoundReply(reply) == reply.throws \/ ReturnsRecord(reply)

\* The replies of the analyzer to request req: all of them, or the sound ones
RepliesTo(req, all) ==
    IF all THEN AnalyzerReplies(req) ELSE { r \in AnalyzerReplies(req) : IsSoundReply(r) }

\* The user analyzes; the analyzer replies in any way (all) or soundly
Analysis(all) ==
    \/ ClickAnalyze
    \/ \E i \in DOMAIN pendingAnalyses :
         \E reply \in RepliesTo(pendingAnalyses[i], all) : AnalyzeSettled(i, reply)

\* The user chats by keyboard; the responder replies with one of replies
Chat(replies) ==
    \/ ClickSend
    \/ EnterKey
    \/ \E text \in ChatTexts : TypeChat(text)
    \/ ClearChat
    \/ \E i \in DOMAIN pendingChats : \E reply \in replies : ChatSettled(i, reply)

Capture ==
    \/ ToggleListening
    \/ \E r \in recognitions : \E transcript \in ChatTexts : RecognitionResult(r, transcript)
    \/ \E r \in recognitions : RecognitionError(r)
    \/ \E r \in recognitions : RecognitionEnd(r)

Narration ==
    \/ ClickReadAloud
    \/ ClickStop
    \/ TogglePause
    \/ \E charIndex \in (IF IsNull(synth.utt) THEN {} ELSE WordStarts(Val(synth.utt).text)) :
         UtteranceBoundary(charIndex)
    \/ UtteranceEnd
    \/ UtteranceError
    \/ CancelledUtteranceEvent

\* The whole application
Next ==
    \/ Intake(Files)
    \/ Analysis(TRUE)
    \/ Chat(ResponderReplies)
    \/ \E lang \in Languages : SetLanguage(lang)
    \/ Capture
    \/ Narration

Spec == Init /\ [][Next]_vars

\* A platform with speech recognition
InitRecognition == Init /\ hasSpeechRecognition

\* File intake and analysis, with every file and every reply of the analyzer; the
\* user does not chat, listen or narrate
NextIntake ==
    \/ Intake(Files)
    \/ Analysis(TRUE)

SpecIntake == InitRecognition /\ [][NextIntake]_vars

\* The same, the analyzer's request settling whenever it is awaited
SpecIntakeFair ==
    /\ SpecIntake
    /\ WF_vars(\E i \in DOMAIN pendingAnalyses :
                 \E reply \in AnalyzerReplies(pendingAnalyses[i]) : AnalyzeSettled(i, reply))

\* The files of the session specifications: one the intake accepts and reads
SessionFiles == { f \in Files : f.size = 2048 /\ f.readable /\ f.type = MimePng }

\* The replies of the responder in the session specifications
SessionReplies == { r \in ResponderReplies : r.throws }

\* Analysis with every reply of the analyzer, and typed chat, over one image file
NextSession ==
    \/ Intake(SessionFiles)
    \/ Analysis(TRUE)
    \/ Chat(SessionReplies)

SpecSession == InitRecognition /\ [][NextSession]_vars

\* Analysis, language changes and voice capture over one image file: the user types
\* and clears the chat, and sends by voice only
NextVoice ==
    \/ Intake(SessionFiles)
    \/ Analysis(FALSE)
    \/ \E text \in ChatTexts : TypeChat(text)
    \/ ClearChat
    \/ \E i \in DOMAIN pendingChats : \E reply \in SessionReplies : ChatSettled(i, reply)
    \/ \E lang \in Languages : SetLanguage(lang)
    \/ Capture

SpecVoice == InitRecognition /\ [][NextVoice]_vars

\* Analysis with sound replies, language changes, and the question "q" sent by
\* the Send button and by voice, over one image file
NextDialogue ==
    \/ \E f \in SessionFiles : HandleFileChange(Some(f))
    \/ \E i \in DOMAIN pendingReads : FileReadSettled(i)
    \/ Analysis(FALSE)
    \/ ClickSend
    \/ \E text \in {<<"q">>} : TypeChat(text)
    \/ \E i \in DOMAIN pendingChats : \E reply \in SessionReplies : ChatSettled(i, reply)
    \/ \E lang \in Languages : SetLanguage(lang)
    \/ ToggleListening
    \/ \E r \in recognitions : \E transcript \in {<<"q">>} : RecognitionResult(r, transcript)
    \/ \E r \in recognitions : RecognitionEnd(r)

SpecDialogue == InitRecognition /\ [][NextDialogue]_vars

\* Analysis with sound replies and typed chat with every reply of the responder,
\* over one image file
NextChat ==
    \/ \E f \in SessionFiles : HandleFileChange(Some(f))
    \/ \E i \in DOMAIN pendingReads : FileReadSettled(i)
    \/ Analysis(FALSE)
    \/ Chat(ResponderReplies)

SpecChat == InitRecognition /\ [][NextChat]_vars

\* The same, the responder's request settling whenever it is awaited
SpecChatFair ==
    /\ SpecChat
    /\ WF_vars(\E i \in DOMAIN pendingChats :
                 \E reply \in ResponderReplies : ChatSettled(i, reply))

\* The replies of the responder that carry a text
SpeechReplies == { r \in ResponderReplies : Truthy(r.text) }

\* Analysis with sound replies, narration with its controls and the events of the
\* speech engine, and the question "q" sent by the Send button and answered with a
\* text, over one image file
NextNarration ==
    \/ \E f \in SessionFiles : HandleFileChange(Some(f))
    \/ \E i \in DOMAIN pendingReads : FileReadSettled(i)
    \/ Analysis(FALSE)
    \/ Narration
    \/ ClickSend
    \/ \E text \in {<<"q">>} : TypeChat(text)
    \/ \E i \in DOMAIN pendingChats : \E reply \in SpeechReplies : ChatSettled(i, reply)

SpecNarration == InitRecognition /\ [][NextNarration]_vars

\* A platform without speech recognition
InitNoRecognition == Init /\ ~hasSpeechRecognition

\* Analysis with sound replies, language changes, the Voice Input button and typed
\* chat, over one image file, on a platform without speech recognition
NextNoRecognition ==
    \/ \E f \in SessionFiles : HandleFileChange(Some(f))
    \/ \E i \in DOMAIN pendingReads : FileReadSettled(i)
    \/ Analysis(FALSE)
    \/ \E lang \in Languages : SetLanguage(lang)
    \/ ToggleListening
    \/ Chat(SessionReplies)

SpecNoRecognition == InitNoRecognition /\ [][NextNoRecognition]_vars

\* ------------------------------------------------------------------- properties
\* The step just taken was handler name
Ran(name) == lastOp'.op = name

\* The analysis that just settled returned a value to handleAnalyze
AnalysisSucceeded ==
    /\ lastOp.op = "analyzeSettled"
    /\ AnalyzeImageContent(Val(lastOp.reply)).ok

\* C1: at most one Content Analyzer request is in flight in every reachable state,
\* and no step taken while analyzing (loading) is true invokes the analyzer.
C1_AtMostOneAnalysisInFlight ==
    /\ [](Len(pendingAnalyses) <= 1)
    /\ [][loading => analyzerCalls' = analyzerCalls]_vars

\* C1 witness: an analysis is in flight with an image loaded, and the bound on
\* invocations would still allow a second one
C1_Witness ==
    /\ loading
    /\ Truthy(image)
    /\ Len(pendingAnalyses) = 1
    /\ analyzerCalls < MaxAnalyses

\* C2: in the state reached when an analysis completes successfully the chat log
\* is empty.
C2_SuccessEmptiesChat == AnalysisSucceeded => messages = <<>>

\* C2 witness: an analysis has just succeeded while a chat request, whose user turn
\* was in the log, is still awaited
C2_Witness ==
    /\ AnalysisSucceeded
    /\ messages = <<>>
    /\ chatLoading
    /\ Len(pendingChats) > 0

\* C3: when the Content Analyzer fails (it raises, returns no text, or returns text
\* that is not a parsable record) the step that settles the analysis sets the error
\* message and leaves the stored record and the chat log as they were.
C3_FailureKeepsRecordAndChat ==
    [][(Ran("analyzeSettled") /\ ~ReturnsRecord(Val(lastOp'.reply)))
          => /\ error' = Some(ErrAnalyze)
             /\ content' = content
             /\ messages' = messages]_vars

\* C4: whenever analyzing (loading) is true it is eventually false, and it is
\* true only while an analysis is in flight.
C4_AnalyzingEventuallyClears ==
    /\ loading ~> ~loading
    /\ [](loading => Len(pendingAnalyses) > 0)

\* C4 witness: a failed analysis has settled and analyzing is false again
C4_Witness ==
    /\ lastOp.op = "analyzeSettled"
    /\ ~AnalyzeImageContent(Val(lastOp.reply)).ok
    /\ ~loading
    /\ pendingAnalyses = <<>>

\* C5: in the state reached when an analysis completes successfully no error
\* message is set.
C5_SuccessLeavesNoError == AnalysisSucceeded => error = Null

\* C6: a change event carrying a file whose type does not start with "image/"
\* sets the UnsupportedFormat message and leaves the image and the record (and
\* the reads in flight) unchanged.
C6_NonImageRejected ==
    [][(/\ Ran("handleFileChange")
        /\ ~IsNull(lastOp'.file)
        /\ ~StartsWith(Val(lastOp'.file).type, <<"i", "m", "a", "g", "e", "/">>))
          => /\ error' = Some(ErrUnsupported)
             /\ image' = image
             /\ content' = content
             /\ pendingReads' = pendingReads]_vars

\* C6 witness: a non-image file has just been rejected while an image and a record
\* are stored
C6_Witness ==
    /\ lastOp.op = "handleFileChange"
    /\ ~IsNull(lastOp.file)
    /\ ~StartsWith(Val(lastOp.file).type, <<"i", "m", "a", "g", "e", "/">>)
    /\ error = Some(ErrUnsupported)
    /\ Truthy(image)
    /\ ~IsNull(content)

\* C7: a change event carrying an image file sets the TooLarge message exactly
\* when the size is greater than 10*1024*1024 bytes, and otherwise starts reading
\* the file.
C7_TooLargeBoundary ==
    [][(/\ Ran("handleFileChange")
        /\ ~IsNull(lastOp'.file)
        /\ StartsWith(Val(lastOp'.file).type, <<"i", "m", "a", "g", "e", "/">>))
          => IF Val(lastOp'.file).size > 10 * 1024 * 1024
             THEN error' = Some(ErrTooLarge) /\ pendingReads' = pendingReads
             ELSE error' = Null /\ pendingReads' = Append(pendingReads, Val(lastOp'.file))]_vars

\* C7 witness: an image file of exactly 10*1024*1024 bytes has just been accepted
\* and is being read
C7_Witness ==
    /\ lastOp.op = "handleFileChange"
    /\ ~IsNull(lastOp.file)
    /\ Val(lastOp.file).size = 10 * 1024 * 1024
    /\ error = Null
    /\ Len(pendingReads) > 0
    /\ pendingReads[Len(pendingReads)] = Val(lastOp.file)

\* C8 as stated: in the state reached when a file read succeeds the image is the
\* file's payload, no record is stored and no error message is set.
C8_LoadLeavesNoError ==
    (lastOp.op = "fileReadSettled" /\ Val(lastOp.file).readable)
        => /\ image = Some(Val(lastOp.file).dataUrl[2])
           /\ content = Null
           /\ error = Null

\* C8 amended: a change event carrying an acceptable file clears the error message
\* set before it; the step in which its read succeeds stores the file's payload as
\* the image, clears the record and leaves the error message as other operations
\* have set it meanwhile.
C8_LoadStoresImageAndClearsRecord ==
    [][/\ (/\ Ran("handleFileChange")
           /\ ~IsNull(lastOp'.file)
           /\ pendingReads' # pendingReads) => error' = Null
       /\ (Ran("fileReadSettled") /\ Val(lastOp'.file).readable)
            => /\ image' = Some(Val(lastOp'.file).dataUrl[2])
               /\ content' = Null
               /\ error' = error]_vars

\* C8 witness: a read has just succeeded over a stored record's image, with an
\* error message set while the file was being read
C8_Witness ==
    /\ lastOp.op = "fileReadSettled"
    /\ Val(lastOp.file).readable
    /\ image = Some(Val(lastOp.file).dataUrl[2])
    /\ content = Null
    /\ error = Some(ErrAnalyze)

\* C9: a SendMessage whose text is empty or whitespace-only appends no ChatTurn,
\* leaves chatLoading unchanged and issues no request.
C9_BlankSendIsNoOp ==
    [][(/\ lastOp'.op \in {"clickSend", "enterKey", "onresult"}
        /\ Trim(Val(lastOp'.text)) = EmptyString)
          => /\ messages' = messages
             /\ chatLoading' = chatLoading
             /\ pendingChats' = pendingChats
             /\ responderCalls' = responderCalls]_vars

\* C10: a SendMessage invoked while no record is stored appends no ChatTurn and
\* issues no request.
C10_SendWithoutRecordIsNoOp ==
    [][(/\ lastOp'.op \in {"clickSend", "enterKey", "onresult"}
        /\ IsNull(content))
          => /\ messages' = messages
             /\ pendingChats' = pendingChats
             /\ responderCalls' = responderCalls]_vars

\* The callers of handleSendMessage: the Send button, Enter, a voice transcript
SendOps == {"clickSend", "enterKey", "onresult"}

\* The step just taken is a handleSendMessage that called the responder
IssuesRequest == lastOp'.op \in SendOps /\ responderCalls' = responderCalls + 1

\* C11: every SendMessage that issues a request has appended the user turn to the
\* chat log, and the history it passes to the responder is the chat log of that
\* moment, ending with that user turn.
C11_HistoryIsChatLog ==
    [][IssuesRequest =>
         /\ messages' = Append(messages, UserMsg(Val(lastOp'.text)))
         /\ Len(pendingChats') = Len(pendingChats) + 1
         /\ pendingChats'[Len(pendingChats')].history = messages']_vars

\* C12: every SendMessage that issues a request, typed or spoken, builds its
\* context from the record stored when it is invoked.
C12_ContextFromStoredRecord ==
    [][(IssuesRequest /\ ~IsNull(content)) =>
         pendingChats'[Len(pendingChats')].context = BuildContext(Val(content))]_vars

\* The text of the last turn of the chat log
LastText(log) == log[Len(log)].text

\* C13: from an empty chat log, one SendMessage(q) with non-blank q, followed by
\* its answer r and nothing else, ends with the chat log [user q, assistant r],
\* chatLoading false and a narration session speaking r.
C13_SingleSendCompletes ==
    [][(/\ Ran("chatSettled")
        /\ lastOp.op \in SendOps
        /\ Len(pendingChats) = 1
        /\ messages = <<UserMsg(Val(lastOp.text))>>)
       => LET q == Val(lastOp.text)
              r == AskFollowUpQuestion(Val(lastOp'.answer))
          IN /\ Trim(q) # EmptyString
             /\ messages' = <<UserMsg(q), AiMsg(r)>>
             /\ ~chatLoading'
             /\ isSpeaking' /\ ~isPaused' /\ speechProgress' = Zero
             /\ ~IsNull(synth'.utt) /\ Val(synth'.utt).text = r
             /\ synth'.queue = <<>>]_vars

C13_Witness ==
    /\ lastOp.op = "chatSettled"
    /\ messages = <<UserMsg(<<"q">>), AiMsg(<<"O", "k", " ", "s", "o">>)>>
    /\ ~chatLoading
    /\ isSpeaking
    /\ synth.utt = Some(Utterance(<<"O", "k", " ", "s", "o">>, "en-US"))

\* C14: the responder returns a non-empty string to handleSendMessage for every
\* outcome of the model call: the model's text when there is some, one fixed
\* string when the text is missing or empty, another when the call throws.
C14_ResponderNeverRaises ==
    [][Ran("chatSettled") =>
         LET reply == Val(lastOp'.answer)
             r == LastText(messages')
         IN /\ r # EmptyString
            /\ reply.throws => r = FallbackError
            /\ (~reply.throws /\ ~Truthy(reply.text)) => r = FallbackNoAnswer
            /\ (~reply.throws /\ Truthy(reply.text)) => r = Val(reply.text)]_vars

C14_Witness ==
    /\ lastOp.op = "chatSettled"
    /\ Val(lastOp.answer).text = Some(EmptyString)
    /\ LastText(messages) = FallbackNoAnswer

\* C15: chatLoading set by a SendMessage is eventually cleared when the
\* responder's call completes; chatLoading is true only while a request is in
\* flight; the chat operations set no error message and the chat log holds user
\* and assistant turns only.
C15_ChatLoadingEventuallyClears ==
    /\ chatLoading ~> ~chatLoading
    /\ [](chatLoading => Len(pendingChats) > 0)
    /\ [](\A k \in DOMAIN messages : messages[k].role \in {"user", "assistant"})
    /\ [][(lastOp'.op \in SendOps \cup {"chatSettled"}) => error' = error]_vars

C15_Witness ==
    /\ lastOp.op = "chatSettled"
    /\ Val(lastOp.answer).throws
    /\ LastText(messages) = FallbackError
    /\ ~chatLoading
    /\ pendingChats = <<>>
    /\ responderCalls = MaxSends

\* The handlers that call speakContent
StartOps == {"handleReadAloud", "chatSettled"}

\* Percentage a is at most percentage b
PercentLeq(a, b) == a.num * b.den <= b.num * a.den

\* C16: the speech engine never holds more than one utterance; a start of
\* narration, while a session is speaking or paused too, cancels the old
\* utterance and leaves the new one alone in the engine, with progress 0, the
\* paused flag cleared and the speaking flag set.
C16_OneNarrationSession ==
    /\ [](synth.queue = <<>>)
    /\ [][(lastOp'.op \in StartOps) =>
            /\ ~IsNull(synth'.utt)
            /\ synth'.utt = currentUtteranceRef'
            /\ synth'.queue = <<>>
            /\ synth'.pos = -1
            /\ synth'.stale = synth.stale + (IF IsNull(synth.utt) THEN 0 ELSE 1)
            /\ speechProgress' = Zero
            /\ ~isPaused'
            /\ isSpeaking']_vars

C16_Witness ==
    /\ lastOp.op = "chatSettled"
    /\ synth.stale = 1
    /\ synth.paused
    /\ ~isPaused
    /\ isSpeaking
    /\ speechProgress = Zero
    /\ Val(synth.utt).text = <<"O", "k", " ", "s", "o">>

\* C17: a pause requested when the narration is not speaking leaves the speaking
\* flag, the paused flag and the progress as they were; the toggle pauses exactly
\* when the narration is speaking and not paused, and resumes exactly when it is
\* paused, the progress being left alone.
C17_PauseResumeNoOps ==
    [][Ran("togglePause") =>
         /\ ~isSpeaking => UNCHANGED <<isSpeaking, isPaused, speechProgress>>
         /\ (isSpeaking /\ ~isPaused) => (isPaused' /\ isSpeaking' /\ speechProgress' = speechProgress)
         /\ (isSpeaking /\ isPaused) => (~isPaused' /\ isSpeaking' /\ speechProgress' = speechProgress)]_vars

C17_Witness ==
    /\ lastOp.op = "utteranceEnd"
    /\ ~IsNull(content)
    /\ ~isSpeaking
    /\ ~isPaused
    /\ speechProgress = Hundred
    /\ IsNull(synth.utt)

\* C18: the progress always lies in [0,100]; while one utterance is being spoken
\* the progress never decreases from one step to the next; when the utterance
\* ends the progress is 100 and the narration is neither speaking nor paused.
C18_ProgressMonotone ==
    /\ [](PercentLeq(Zero, speechProgress) /\ PercentLeq(speechProgress, Hundred))
    /\ [][(/\ ~IsNull(synth.utt)
            /\ synth'.utt = synth.utt
            /\ lastOp'.op \notin StartOps)
           => PercentLeq(speechProgress, speechProgress')]_vars
    /\ [][Ran("utteranceEnd") =>
            (speechProgress' = Hundred /\ ~isSpeaking' /\ ~isPaused')]_vars

\* C19: a language change leaves the requests in flight, the stored record and
\* the chat log as they were; every analysis and every SendMessage issued
\* afterwards carries the language selected when it is issued.
C19_LanguageChangeNotRetroactive ==
    /\ [][Ran("setLanguage") =>
            /\ pendingAnalyses' = pendingAnalyses
            /\ pendingChats' = pendingChats
            /\ content' = content
            /\ messages' = messages]_vars
    /\ [][(Ran("handleAnalyze") /\ analyzerCalls' = analyzerCalls + 1) =>
            pendingAnalyses'[Len(pendingAnalyses')].language = language]_vars
    /\ [][IssuesRequest => pendingChats'[Len(pendingChats')].language = language]_vars

\* C20: on a platform without speech recognition the capture state is idle in
\* every reachable state, and the Voice Input button never makes it listening.
C20_NoRecognitionStaysIdle ==
    /\ [](~hasSpeechRecognition => (~isListening /\ recognitions = {}))
    /\ [][(~hasSpeechRecognition /\ Ran("toggleListening")) => ~isListening']_vars

\* C21: a click on the Voice Input button while listening stops the recognition
\* session that is running, whether or not the language was changed since the
\* session started: no session is left listening.
C21_StopEndsRunningSession ==
    [][(Ran("toggleListening") /\ isListening) =>
         \A r \in recognitions' : r.phase # "listening"]_vars

\* C22: a transcript with non-blank text delivered while a record is stored
\* appends exactly one user turn with that text to the chat log and issues one
\* request to the responder.
C22_TranscriptIsSent ==
    [][(/\ Ran("onresult")
        /\ ~IsNull(content)
        /\ Trim(Val(lastOp'.text)) # EmptyString)
       => /\ messages' = Append(messages, UserMsg(Val(lastOp'.text)))
          /\ Len(pendingChats') = Len(pendingChats) + 1
          /\ responderCalls' = responderCalls + 1]_vars

\* C23: a stored record is the record of the image that is loaded.
C23_RecordOfLoadedImage ==
    ~IsNull(content) =>
        /\ ~IsNull(image)
        /\ Val(content).topic = <<"topic", Val(image), Val(content).topic[3]>>

\* The number of turns of role among the first k turns of log
RECURSIVE Turns(_, _, _)
Turns(log, role, k) ==
    IF k = 0 THEN 0
    ELSE Turns(log, role, k - 1) + (IF log[k].role = role THEN 1 ELSE 0)

\* C24: every assistant turn of the chat log has the user turn it answers before
\* it: no prefix of the log holds more assistant turns than user turns.
C24_NoOrphanAnswer ==
    \A k \in DOMAIN messages :
        Turns(messages, "assistant", k) <= Turns(messages, "user", k)

\* C25: chatLoading is true exactly when a request to the responder is in flight.
C25_ChatLoadingIffInFlight == chatLoading <=> (Len(pendingChats) > 0)

\* C26: the event of an utterance that was stopped or replaced leaves the speaking
\* flag, the paused flag and the progress as they were, and the speaking flag is
\* true whenever the engine holds the current utterance.
C26_StaleEventsIgnored ==
    /\ [](~IsNull(synth.utt) => isSpeaking)
    /\ [][Ran("cancelledUtteranceEvent") =>
            UNCHANGED <<isSpeaking, isPaused, speechProgress>>]_vars

====
